---- MODULE Spec2Model ----
(***************************************************************************)
(* State-machine model of the TrueX FIX client (fix_simulation/client.py)  *)
(* and of the start-up / shutdown glue in fix_simulation/                  *)
(* trade_simulation.py.                                                    *)
(*                                                                         *)
(* One Application object exists per mnemonic.  The quickfix engine drives *)
(* its callbacks (toAdmin, onLogon, onLogout, fromApp); callers drive the  *)
(* order commands (send_order, modify_order, cancel_order, send_logout).   *)
(* Every handler is one action.                                            *)
(***************************************************************************)
EXTENDS Integers, Sequences, FiniteSets, TLC

VARIABLES
    app,          \* app[a]: the fields of Application a (client.py 128-137)
    session,      \* session[a]: the engine's state of a's FIX session
    generatedIds, \* generatedIds[a]: every value generate_order_id returned, in order
    lastSent,     \* lastSent[a]: arguments of the last Session.sendToTarget call that went through
    sentTypes,    \* sentTypes[a]: MsgType of every message handed to Session.sendToTarget, in order
    lastOrderId,  \* lastOrderId[a]: ClOrdID of the last order submitted (New Order Single or Cancel/Replace)
    lastCall,     \* lastCall[a]: the last command called on a, its arguments, and how it was left
    orderLog,     \* orderLog[a]: the last "Order placed / modified / canceled" log event of a
    lookup,       \* lookup[a]: how often get_client_id was called for a, and its last result
    adminOut,     \* adminOut[a]: the last outgoing admin message, as toAdmin got it and as it left it
    adminIn,      \* adminIn[a]: how many admin messages fromAdmin got, and what the last call did
    threads,      \* threads[a]: the simulation_loop threads started for a, each with its position
    received,     \* received[a]: inbound application messages, in arrival order
    reports,      \* reports[a]: every on_execution_report invocation: its message and what it did
    stop_event,   \* main's threading.Event
    mainPc,       \* main's position: "wait", "send_logout", "stop", "done"
    mainIdx,      \* index into running_clients of the client being shut down
    initiator     \* initiator[a]: "running" or "stopped"

vars == <<app, session, generatedIds, lastSent, sentTypes, lastOrderId, lastCall, orderLog,
          lookup, adminOut, adminIn, threads,
          received, reports, stop_event, mainPc, mainIdx, initiator>>

orderVars == <<generatedIds, lastSent, sentTypes, lastOrderId, orderLog>>
callbackVars == <<lookup, adminOut, threads>>
inboundVars == <<received, reports, adminIn>>
mainVars == <<stop_event, mainPc, mainIdx, initiator>>

---------------------------------------------------------------------------
(* Bounds of the model *)

\* at most this many client order IDs are generated per Application
MaxOrders == 3

\* at most this many inbound application messages, and as many inbound admin
\* messages, per session
MaxInbound == 2

\* at most this many logons per session
MaxLogons == 2

\* with several Applications side by side: at most this many orders and inbound
\* application messages over all of them together
MaxShared == 2

---------------------------------------------------------------------------
(* Values *)

\* Python's None; a present optional value v is Some(v)
None == <<>>

Some(v) == <<v>>

\* str(x) of an optional string: str(None) is the text "None"
Str(x) == IF x = None THEN "None" ELSE x[1]

\* `not x` for an optional value that is never an empty string
Falsy(x) == x = None

\* TRUEX_CLIENT_MNEMONICS, in the order main() starts the clients
running_clients == <<"m1", "m2">>

Mnemonics == {running_clients[i] : i \in 1..Len(running_clients)}

\* fix.SessionID(begin_str, f"{mnemonic}_8", target_comp_id)
SessionID(mnemonic) ==
    [BeginString |-> "FIXT.1.1", SenderCompID |-> mnemonic \o "_8", TargetCompID |-> "TRUEX"]

\* the environment's TRUEX_CLIENT_API_KEY_ID and TRUEX_CLIENT_API_KEY_SECRET
TRUEX_CLIENT_API_KEY_ID == "key-id"

TRUEX_CLIENT_API_KEY_SECRET == "key-secret"

\* what get_client_id can return: an id of the REST answer, or None
ClientIds == {"7001"}

ClientIdLookups == {None} \cup {Some(c) : c \in ClientIds}

\* int(time.time() * 1000) and uuid.uuid4().hex[:8]
Timestamps == {1000}

\* the clock readings generate_order_id can see next: wall-clock time does not run
\* backwards between two calls on one Application
Now(ids) == {t \in Timestamps : ids = <<>> \/ t >= ids[Len(ids)][1]}

UuidFragments == {"9f3c2a1b"}

MsgType_Logon == "A"

MsgType_Heartbeat == "0"

MsgType_Logout == "5"

MsgType_Reject == "3"

MsgType_ExecutionReport == "8"

MsgType_OrderCancelReject == "9"

MsgType_NewOrderSingle == "D"

MsgType_OrderCancelRequest == "F"

MsgType_OrderCancelReplaceRequest == "G"

Side_BUY == "1"

Side_SELL == "2"

OrdType_MARKET == "1"

OrdType_LIMIT == "2"

TimeInForce_GOOD_TILL_CANCEL == "1"

PartyRole_CLIENT_ID == "3"

INSTRUMENT == [symbol |-> "BTC-PYUSD", reference_price |-> 10000]

\* inputs of the order commands: prices in quote currency, quantities in base increments
Prices == {0, 10050}

Quantities == {2500}

Optional(S) == {None} \cup {Some(v) : v \in S}

\* the session_id a caller passes: the session's id, or the never-assigned self.sessionId
SessionIdArgs(a) == {None, SessionID(a)}

---------------------------------------------------------------------------
(* Application.__init__ *)

NewApplication(mnemonic) ==
    [sessionId |-> None,
     lastClOrdId |-> None,
     orderIdCounter |-> 0,
     clientId |-> None,
     sessionID |-> None,
     mnemonic |-> mnemonic,
     apiKeyId |-> TRUEX_CLIENT_API_KEY_ID,
     apiKeySecret |-> TRUEX_CLIENT_API_KEY_SECRET]

NoCall == [op |-> "none", args |-> <<>>, exit |-> "none"]

\* no get_client_id call yet
NoLookup == [calls |-> 0, result |-> None]

\* no fromAdmin call yet
NoAdminIn == [count |-> 0, last |-> None]

Init ==
    /\ app = [a \in Mnemonics |-> NewApplication(a)]
    /\ session = [a \in Mnemonics |-> "Disconnected"]
    /\ generatedIds = [a \in Mnemonics |-> <<>>]
    /\ lastSent = [a \in Mnemonics |-> None]
    /\ sentTypes = [a \in Mnemonics |-> <<>>]
    /\ lastOrderId = [a \in Mnemonics |-> None]
    /\ lastCall = [a \in Mnemonics |-> NoCall]
    /\ orderLog = [a \in Mnemonics |-> None]
    /\ lookup = [a \in Mnemonics |-> NoLookup]
    /\ adminOut = [a \in Mnemonics |-> None]
    /\ adminIn = [a \in Mnemonics |-> NoAdminIn]
    /\ threads = [a \in Mnemonics |-> <<>>]
    /\ received = [a \in Mnemonics |-> <<>>]
    /\ reports = [a \in Mnemonics |-> <<>>]
    /\ stop_event = FALSE
    /\ mainPc = "wait"
    /\ mainIdx = 1
    /\ initiator = [a \in Mnemonics |-> "running"]

---------------------------------------------------------------------------
(* Session callbacks *)

\* datetime.utcnow().strftime('%Y%m%d-%H:%M:%S.%f')[:-3], read inside toAdmin
UtcNow == {"20240611-09:30:00.000", "20240611-09:30:00.417"}

\* the SendingTime the engine has put into the header before it calls toAdmin
EngineSendingTime == "20240611-09:30:00"

\* the MsgSeqNum the engine has put into the header
MsgSeqNums == {"1", "2"}

\* an outgoing admin message as the engine passes it to toAdmin
AdminMessage(a, msg_type, msg_seq_num) ==
    [header |-> [MsgType |-> msg_type,
                 MsgSeqNum |-> msg_seq_num,
                 SenderCompID |-> SessionID(a).SenderCompID,
                 TargetCompID |-> SessionID(a).TargetCompID,
                 SendingTime |-> EngineSendingTime],
     body |-> IF msg_type = MsgType_Logon
              THEN [EncryptMethod |-> "0", HeartBtInt |-> "30"]
              ELSE [TestReqID |-> "TEST"]]

\* hmac.new(secret_bytes, message_bytes, hashlib.sha256).digest(), kept as the term
\* of its key and message: distinct inputs give distinct digests
hmac_sha256(secret, message) == [digest |-> "HMAC-SHA256", key |-> secret, msg |-> message]

\* base64.b64encode(...).decode('utf-8'), kept as a term over what it encodes
b64encode(bytes) == [base64 |-> bytes]

\* generate_password: the six values concatenated without separator, signed with
\* the secret, base64-encoded
generate_password(secret, sending_time, msg_type, msg_seq_num, sender_comp_id, target_comp_id, username) ==
    b64encode(hmac_sha256(secret,
                          sending_time \o msg_type \o msg_seq_num \o sender_comp_id
                              \o target_comp_id \o username))

\* the Logon branch of toAdmin with the password signed over the SendingTime the
\* engine had put into the header
LogonFieldsEngineTime(a, message, sending_time) ==
    LET header == message.header
        password == generate_password(app[a].apiKeySecret, header.SendingTime, header.MsgType,
                                      header.MsgSeqNum, header.SenderCompID,
                                      header.TargetCompID, app[a].apiKeyId)
    IN [header |-> [header EXCEPT !.SendingTime = sending_time],
        body |-> ("Password" :> password) @@ ("Username" :> app[a].apiKeyId) @@ message.body]

\* the Logon branch of toAdmin: the password is signed over sending_time and the
\* header's MsgType, MsgSeqNum, SenderCompID, TargetCompID; then header field 52,
\* Username and Password are set
LogonFields(a, message, sending_time) ==
    LET header == message.header
        password == generate_password(app[a].apiKeySecret, sending_time, header.MsgType,
                                      header.MsgSeqNum, header.SenderCompID,
                                      header.TargetCompID, app[a].apiKeyId)
    IN [header |-> [header EXCEPT !.SendingTime = sending_time],
        body |-> ("Password" :> password) @@ ("Username" :> app[a].apiKeyId) @@ message.body]

\* onCreate: logs only
onCreate(a) ==
    /\ initiator[a] = "running"
    /\ UNCHANGED vars

\* toAdmin: an outgoing Logon resets self.sessionId and gets its credentials; other
\* admin messages are only logged.
\* The engine sends a Logon from a disconnected session and heartbeats on a live one.
toAdmin(a, message, sending_time) ==
    /\ initiator[a] = "running"
    /\ \/ /\ message.header.MsgType = MsgType_Logon
          /\ session[a] = "Disconnected"
          /\ app' = [app EXCEPT ![a].sessionId = None]
          /\ session' = [session EXCEPT ![a] = "LogonSent"]
          /\ adminOut' = [adminOut EXCEPT ![a] =
                 <<message, LogonFields(a, message, sending_time)>>]
       \/ /\ message.header.MsgType # MsgType_Logon
          /\ session[a] = "LoggedOn"
          /\ adminOut' = [adminOut EXCEPT ![a] = <<message, message>>]
          /\ UNCHANGED <<app, session>>
    /\ UNCHANGED <<orderVars, lastCall, lookup, threads, inboundVars, mainVars>>

\* Application.onLogon: records the session id and looks the client id up
Application_onLogon(a, found) ==
    /\ initiator[a] = "running"
    /\ session[a] = "LogonSent"
    /\ lookup[a].calls < MaxLogons
    /\ session' = [session EXCEPT ![a] = "LoggedOn"]
    /\ lookup' = [lookup EXCEPT ![a] = [calls |-> @.calls + 1, result |-> found]]
    /\ app' = [app EXCEPT ![a].sessionID = SessionID(a), ![a].clientId = found]
    /\ UNCHANGED <<orderVars, lastCall, adminOut, inboundVars, mainVars>>

\* onLogon of an Application that is not a SimulatedTradingApplication
onLogon(a, found) ==
    /\ Application_onLogon(a, found)
    /\ UNCHANGED threads

\* an onLogout that refreshes the client id
onLogoutLooksUp(a) ==
    /\ initiator[a] = "running"
    /\ session[a] \in {"LogonSent", "LoggedOn"}
    /\ session' = [session EXCEPT ![a] = "Disconnected"]
    /\ lookup' = [lookup EXCEPT ![a] = [calls |-> @.calls + 1, result |-> @.result]]
    /\ UNCHANGED <<app, orderVars, lastCall, adminOut, threads, inboundVars, mainVars>>

\* onLogout: logs only
onLogout(a) ==
    /\ initiator[a] = "running"
    /\ session[a] \in {"LogonSent", "LoggedOn"}
    /\ session' = [session EXCEPT ![a] = "Disconnected"]
    /\ UNCHANGED <<app, orderVars, lastCall, callbackVars, inboundVars, mainVars>>

---------------------------------------------------------------------------
(* Order commands *)

\* generate_order_id with the counter not yet incremented when the id is composed
generate_order_id_stale(a, timestamp, uuid_fragment) ==
    <<timestamp, uuid_fragment, app[a].orderIdCounter>>

\* generate_order_id: f"{timestamp}-{uuid_fragment}-{self.orderIdCounter}" after
\* self.orderIdCounter += 1, kept as its three components
generate_order_id(a, timestamp, uuid_fragment) ==
    <<timestamp, uuid_fragment, app[a].orderIdCounter + 1>>

\* the counter component of a client order id
CounterOf(id) == id[3]

\* a guard that lets every call through
NoActiveOrderNever(a) == FALSE

\* `if not self.lastClOrdId` of modify_order and cancel_order
NoActiveOrder(a) == Falsy(app[a].lastClOrdId)

\* the NoPartyIDs group: PartyID(str(self.clientId)), PartyRole(CLIENT_ID)
NoPartyIDs(a) ==
    <<[PartyID |-> Str(app[a].clientId), PartyRole |-> PartyRole_CLIENT_ID]>>

\* message.setField(tag, value), the message a function from tags to values
SetField(message, tag, value) == (tag :> value) @@ message

\* a field set under `if v is not None`
SetIfNotNone(message, tag, v) ==
    IF v # None THEN SetField(message, tag, v[1]) ELSE message

\* a field set under `if v`, which also drops a zero
SetIfTruthy(message, tag, v) ==
    IF v # None /\ v[1] # 0 THEN SetField(message, tag, v[1]) ELSE message

\* the message send_order builds
NewOrderSingle(a, cl_ord_id, side, price, quantity, order_type) ==
    [MsgType |-> MsgType_NewOrderSingle,
     ClOrdID |-> cl_ord_id,
     Symbol |-> INSTRUMENT.symbol,
     Side |-> side,
     OrdType |-> order_type,
     Price |-> price,
     OrderQty |-> quantity,
     TimeInForce |-> TimeInForce_GOOD_TILL_CANCEL,
     NoPartyIDs |-> NoPartyIDs(a)]

\* a Cancel/Replace that sets its optional fields by truthiness
OrderCancelReplaceRequestTruthy(a, cl_ord_id, new_price, new_quantity, new_order_type) ==
    SetIfNotNone(
        SetIfNotNone(
            SetIfTruthy(
                [MsgType |-> MsgType_OrderCancelReplaceRequest,
                 OrigClOrdID |-> app[a].lastClOrdId,
                 ClOrdID |-> cl_ord_id,
                 NoPartyIDs |-> NoPartyIDs(a)],
                "Price", new_price),
            "OrderQty", new_quantity),
        "OrdType", new_order_type)

\* the message modify_order builds
OrderCancelReplaceRequest(a, cl_ord_id, new_price, new_quantity, new_order_type) ==
    SetIfNotNone(
        SetIfNotNone(
            SetIfNotNone(
                [MsgType |-> MsgType_OrderCancelReplaceRequest,
                 OrigClOrdID |-> app[a].lastClOrdId,
                 ClOrdID |-> cl_ord_id,
                 NoPartyIDs |-> NoPartyIDs(a)],
                "Price", new_price),
            "OrderQty", new_quantity),
        "OrdType", new_order_type)

\* a cancel request that names itself as the order to cancel
OrderCancelRequestSelf(a, cl_ord_id) ==
    [MsgType |-> MsgType_OrderCancelRequest,
     OrigClOrdID |-> cl_ord_id,
     ClOrdID |-> cl_ord_id,
     NoPartyIDs |-> NoPartyIDs(a)]

\* the message cancel_order builds
OrderCancelRequest(a, cl_ord_id) ==
    [MsgType |-> MsgType_OrderCancelRequest,
     OrigClOrdID |-> app[a].lastClOrdId,
     ClOrdID |-> cl_ord_id,
     NoPartyIDs |-> NoPartyIDs(a)]

\* Session.sendToTarget(message, session_id) raises when session_id is None
\* (the binding takes a SessionID reference); the caller does not catch it
SendRaises(session_id) == session_id = None

\* the logging.info call that follows Session.sendToTarget in each command; it runs
\* before self.lastClOrdId is assigned, so self.lastClOrdId is still the previous id
OrderLogEvent(a, op, cl_ord_id) ==
    IF op = "send_order"
    THEN [event |-> "Order placed", OrderID |-> app[a].lastClOrdId]
    ELSE IF op = "modify_order"
    THEN [event |-> "Order modified", LastOrderID |-> app[a].lastClOrdId,
          NewOrderID |-> cl_ord_id]
    ELSE [event |-> "Order canceled", LastOrderID |-> app[a].lastClOrdId,
          OrderID |-> cl_ord_id]

\* the common course with orderIdCounter kept once for all Applications (a class
\* attribute) instead of once per Application
SubmitSharedCounter(a, op, args, message, session_id, cl_ord_id) ==
    /\ app[a].orderIdCounter < MaxOrders
    /\ generatedIds' = [generatedIds EXCEPT ![a] = Append(@, cl_ord_id)]
    /\ IF SendRaises(session_id)
       THEN /\ app' = [b \in Mnemonics |-> [app[b] EXCEPT !.orderIdCounter = @ + 1]]
            /\ lastCall' = [lastCall EXCEPT ![a] = [op |-> op, args |-> args, exit |-> "raised"]]
            /\ UNCHANGED <<lastSent, sentTypes, lastOrderId, orderLog>>
       ELSE /\ app' = [b \in Mnemonics |->
                          IF b = a
                          THEN [app[b] EXCEPT !.orderIdCounter = @ + 1,
                                              !.lastClOrdId = cl_ord_id]
                          ELSE [app[b] EXCEPT !.orderIdCounter = @ + 1]]
            /\ lastSent' = [lastSent EXCEPT ![a] = <<message, session_id>>]
            /\ sentTypes' = [sentTypes EXCEPT ![a] = Append(@, message.MsgType)]
            /\ lastOrderId' = [lastOrderId EXCEPT ![a] =
                   IF message.MsgType = MsgType_OrderCancelRequest THEN @ ELSE cl_ord_id]
            /\ orderLog' = [orderLog EXCEPT ![a] = OrderLogEvent(a, op, cl_ord_id)]
            /\ lastCall' = [lastCall EXCEPT ![a] = [op |-> op, args |-> args, exit |-> "sent"]]

\* The common course of the three commands from generate_order_id on: the counter
\* moves, the message goes to Session.sendToTarget, and only when that returns
\* is the order logged and self.lastClOrdId set to the new id.
Submit(a, op, args, message, session_id, cl_ord_id) ==
    /\ app[a].orderIdCounter < MaxOrders
    /\ generatedIds' = [generatedIds EXCEPT ![a] = Append(@, cl_ord_id)]
    /\ IF SendRaises(session_id)
       THEN /\ app' = [app EXCEPT ![a].orderIdCounter = @ + 1]
            /\ lastCall' = [lastCall EXCEPT ![a] = [op |-> op, args |-> args, exit |-> "raised"]]
            /\ UNCHANGED <<lastSent, sentTypes, lastOrderId, orderLog>>
       ELSE /\ app' = [app EXCEPT ![a].orderIdCounter = @ + 1,
                                  ![a].lastClOrdId = cl_ord_id]
            /\ lastSent' = [lastSent EXCEPT ![a] = <<message, session_id>>]
            /\ sentTypes' = [sentTypes EXCEPT ![a] = Append(@, message.MsgType)]
            /\ lastOrderId' = [lastOrderId EXCEPT ![a] =
                   IF message.MsgType = MsgType_OrderCancelRequest THEN @ ELSE cl_ord_id]
            /\ orderLog' = [orderLog EXCEPT ![a] = OrderLogEvent(a, op, cl_ord_id)]
            /\ lastCall' = [lastCall EXCEPT ![a] = [op |-> op, args |-> args, exit |-> "sent"]]

\* the early return of modify_order and cancel_order
ReturnNoOrder(a, op, args) ==
    /\ lastCall' = [lastCall EXCEPT ![a] = [op |-> op, args |-> args, exit |-> "no_order"]]
    /\ UNCHANGED <<app, orderVars>>

send_order(a, session_id, side, price, quantity, order_type, timestamp, uuid_fragment) ==
    /\ LET cl_ord_id == generate_order_id(a, timestamp, uuid_fragment)
       IN Submit(a, "send_order", <<session_id, side, price, quantity, order_type>>,
                 NewOrderSingle(a, cl_ord_id, side, price, quantity, order_type),
                 session_id, cl_ord_id)
    /\ UNCHANGED <<session, callbackVars, inboundVars, mainVars>>

modify_order(a, session_id, new_price, new_quantity, new_order_type, timestamp, uuid_fragment) ==
    /\ IF NoActiveOrder(a)
       THEN ReturnNoOrder(a, "modify_order",
                          <<session_id, new_price, new_quantity, new_order_type>>)
       ELSE LET cl_ord_id == generate_order_id(a, timestamp, uuid_fragment)
            IN Submit(a, "modify_order",
                      <<session_id, new_price, new_quantity, new_order_type>>,
                      OrderCancelReplaceRequest(a, cl_ord_id, new_price, new_quantity,
                                                new_order_type),
                      session_id, cl_ord_id)
    /\ UNCHANGED <<session, callbackVars, inboundVars, mainVars>>

cancel_order(a, session_id, timestamp, uuid_fragment) ==
    /\ IF NoActiveOrder(a)
       THEN ReturnNoOrder(a, "cancel_order", <<session_id>>)
       ELSE LET cl_ord_id == generate_order_id(a, timestamp, uuid_fragment)
            IN Submit(a, "cancel_order", <<session_id>>, OrderCancelRequest(a, cl_ord_id),
                      session_id, cl_ord_id)
    /\ UNCHANGED <<session, callbackVars, inboundVars, mainVars>>

\* send_logout: guarded by self.sessionId, addressed to self.sessionID
send_logout(a) ==
    /\ IF app[a].sessionId # None
       THEN /\ ~SendRaises(app[a].sessionID)
            /\ lastSent' = [lastSent EXCEPT ![a] =
                   <<[MsgType |-> MsgType_Logout], app[a].sessionID>>]
            /\ sentTypes' = [sentTypes EXCEPT ![a] = Append(@, MsgType_Logout)]
            /\ lastCall' = [lastCall EXCEPT ![a] = [op |-> "send_logout", args |-> <<>>, exit |-> "sent"]]
       ELSE /\ lastCall' = [lastCall EXCEPT ![a] = [op |-> "send_logout", args |-> <<>>, exit |-> "skipped"]]
            /\ UNCHANGED <<lastSent, sentTypes>>
    /\ UNCHANGED <<app, generatedIds, lastOrderId, orderLog>>

---------------------------------------------------------------------------
(* SimulatedTradingApplication: the simulation threads *)

\* a thread as threading.Thread(target=self.simulation_loop).start() leaves it:
\* pc is its position, the other fields are the locals of the command it is in
NewThread == [pc |-> "loop", op |-> "none", sid |-> None, c |-> 0, ts |-> 0, id |-> None]

\* SimulatedTradingApplication.onLogon: Application.onLogon, then start_simulation
\* starts one more thread; nothing stops the threads started before
SimulatedTradingApplication_onLogon(a, found) ==
    /\ Application_onLogon(a, found)
    /\ threads' = [threads EXCEPT ![a] = Append(@, NewThread)]

\* the command behind each choice of random.choices(['place', 'modify', 'cancel'])
SimulatedCommand(action) ==
    IF action = "place" THEN "send_order"
    ELSE IF action = "modify" THEN "modify_order"
    ELSE "cancel_order"

\* the arguments the simulate_* methods pass after the session id
SimulatedArgs(op) ==
    IF op = "send_order" THEN <<Side_BUY, INSTRUMENT.reference_price, 2500, OrdType_LIMIT>>
    ELSE IF op = "modify_order" THEN <<Some(10050), None, None>>
    ELSE <<>>

\* simulation_loop, one pass from the choice of the action to the first access of
\* the shared counter: simulate_order_modification and simulate_order_cancellation
\* return when there is no order; otherwise the command is called with
\* self.sessionId and generate_order_id reads the clock and loads self.orderIdCounter
simulation_loop(a, t, action, timestamp) ==
    /\ t \in 1..Len(threads[a])
    /\ threads[a][t].pc = "loop"
    /\ timestamp \in Now(generatedIds[a])
    /\ IF action # "place" /\ NoActiveOrder(a)
       THEN /\ lastCall' = [lastCall EXCEPT ![a] =
                   [op |-> "simulate_" \o action, args |-> <<>>, exit |-> "no_order"]]
            /\ UNCHANGED threads
       ELSE /\ app[a].orderIdCounter < MaxOrders
            /\ threads' = [threads EXCEPT ![a][t] =
                   [pc |-> "store", op |-> SimulatedCommand(action), sid |-> app[a].sessionId,
                    c |-> app[a].orderIdCounter, ts |-> timestamp, id |-> None]]
            /\ UNCHANGED lastCall
    /\ UNCHANGED <<app, session, orderVars, lookup, adminOut, inboundVars, mainVars>>

\* generate_order_id, second half of `self.orderIdCounter += 1`: the loaded value
\* plus one is stored
generate_order_id_store(a, t) ==
    /\ t \in 1..Len(threads[a])
    /\ threads[a][t].pc = "store"
    /\ app' = [app EXCEPT ![a].orderIdCounter = threads[a][t].c + 1]
    /\ threads' = [threads EXCEPT ![a][t].pc = "compose"]
    /\ UNCHANGED <<session, orderVars, lastCall, lookup, adminOut, inboundVars, mainVars>>

\* generate_order_id, the return: the f-string reads self.orderIdCounter again
generate_order_id_return(a, t, uuid_fragment) ==
    /\ t \in 1..Len(threads[a])
    /\ threads[a][t].pc = "compose"
    /\ LET cl_ord_id == <<threads[a][t].ts, uuid_fragment, app[a].orderIdCounter>>
       IN /\ threads' = [threads EXCEPT ![a][t].pc = "send", ![a][t].id = cl_ord_id]
          /\ generatedIds' = [generatedIds EXCEPT ![a] = Append(@, cl_ord_id)]
    /\ UNCHANGED <<app, session, lastSent, sentTypes, lastOrderId, orderLog, lastCall,
                   lookup, adminOut, inboundVars, mainVars>>

\* the message the thread's command builds around its id
CommandMessage(a, th) ==
    IF th.op = "send_order"
    THEN NewOrderSingle(a, th.id, Side_BUY, INSTRUMENT.reference_price, 2500, OrdType_LIMIT)
    ELSE IF th.op = "modify_order"
    THEN OrderCancelReplaceRequest(a, th.id, Some(10050), None, None)
    ELSE OrderCancelRequest(a, th.id)

\* the rest of the command: the message is built and handed to Session.sendToTarget
\* with the session id the thread passed.  When the call raises, the exception leaves
\* simulation_loop and the thread ends; when it returns, the order is logged,
\* self.lastClOrdId is set and the thread goes to sleep for its next pass.
command_send(a, t) ==
    /\ t \in 1..Len(threads[a])
    /\ threads[a][t].pc = "send"
    /\ LET th == threads[a][t]
           args == <<th.sid>> \o SimulatedArgs(th.op)
       IN IF SendRaises(th.sid)
          THEN /\ threads' = [threads EXCEPT ![a][t] = [NewThread EXCEPT !.pc = "dead"]]
               /\ lastCall' = [lastCall EXCEPT ![a] =
                      [op |-> th.op, args |-> args, exit |-> "raised"]]
               /\ UNCHANGED <<app, lastSent, sentTypes, lastOrderId, orderLog>>
          ELSE /\ threads' = [threads EXCEPT ![a][t] = NewThread]
               /\ lastSent' = [lastSent EXCEPT ![a] = <<CommandMessage(a, th), th.sid>>]
               /\ sentTypes' = [sentTypes EXCEPT ![a] =
                      Append(@, CommandMessage(a, th).MsgType)]
               /\ lastOrderId' = [lastOrderId EXCEPT ![a] =
                      IF th.op = "cancel_order" THEN @ ELSE th.id]
               /\ orderLog' = [orderLog EXCEPT ![a] = OrderLogEvent(a, th.op, th.id)]
               /\ app' = [app EXCEPT ![a].lastClOrdId = th.id]
               /\ lastCall' = [lastCall EXCEPT ![a] =
                      [op |-> th.op, args |-> args, exit |-> "sent"]]
    /\ UNCHANGED <<session, generatedIds, lookup, adminOut, inboundVars, mainVars>>

---------------------------------------------------------------------------
(* Inbound application messages *)

EXEC_TYPE_MAP ==
    ("0" :> "New (Order Confirmation)") @@ ("1" :> "Partial Fill") @@ ("2" :> "Fill") @@
    ("3" :> "Done for Day") @@ ("4" :> "Canceled") @@ ("5" :> "Replaced (Modified Order)") @@
    ("6" :> "Pending Cancel") @@ ("8" :> "Rejected") @@ ("9" :> "Suspended") @@
    ("A" :> "Pending New") @@ ("C" :> "Expired") @@ ("E" :> "Pending Replace")

ORDER_STATUS_MAP ==
    ("0" :> "New") @@ ("1" :> "Partially Filled") @@ ("2" :> "Filled") @@
    ("3" :> "Done for Day") @@ ("4" :> "Canceled") @@ ("5" :> "Replaced") @@
    ("6" :> "Pending Cancel") @@ ("7" :> "Stopped") @@ ("8" :> "Rejected") @@
    ("9" :> "Suspended") @@ ("A" :> "Pending New") @@ ("B" :> "Calculated") @@
    ("C" :> "Expired") @@ ("D" :> "Accepted for Bidding") @@ ("E" :> "Pending Replace")

\* dict.get(key, default)
Get(map, key, default) == IF key \in DOMAIN map THEN map[key] ELSE default

\* the ExecType name looked up in the OrdStatus table
ExecTypeStrByStatus(exec_type_value) ==
    Get(ORDER_STATUS_MAP, exec_type_value, "Unknown (" \o exec_type_value \o ")")

\* EXEC_TYPE_MAP.get(exec_type_value, f"Unknown ({exec_type_value})")
ExecTypeStr(exec_type_value) ==
    Get(EXEC_TYPE_MAP, exec_type_value, "Unknown (" \o exec_type_value \o ")")

\* ORDER_STATUS_MAP.get(ord_status_value, f"Unknown ({ord_status_value})")
OrderStatusStr(ord_status_value) ==
    Get(ORDER_STATUS_MAP, ord_status_value, "Unknown (" \o ord_status_value \o ")")

\* A FIX message as the engine hands it over: message.getHeader() and the body are
\* separate field maps.  message.isSetField / message.getField read the body.
isSetField(message, tag) == tag \in DOMAIN message.body

\* the value of a field object after `if message.isSetField(f): message.getField(f)`:
\* the body's value, or the field's empty default
getIfSet(message, tag) == IF isSetField(message, tag) THEN message.body[tag] ELSE None

\* The execution reports a counterparty can send.  PossDupFlag (tag 43) belongs to the
\* FIX standard header, MsgType too; ExecType and OrdStatus are required body fields.
\* "7" is an OrdStatus code and no ExecType code; "Z" is in neither table.
InboundHeaders ==
    {[MsgType |-> t] : t \in {MsgType_ExecutionReport, MsgType_OrderCancelReject}}
    \cup {[MsgType |-> t, PossDupFlag |-> d] :
             t \in {MsgType_ExecutionReport, MsgType_OrderCancelReject}, d \in {"Y", "N"}}

ExecTypeCodes == {"0", "7"}

OrdStatusCodes == {"7", "Z"}

InboundBodies ==
    {[ExecType |-> e, OrdStatus |-> s] : e \in ExecTypeCodes, s \in OrdStatusCodes}
    \cup {[ExecType |-> e, OrdStatus |-> s, ClOrdID |-> <<1000, "9f3c2a1b", 1>>] :
             e \in {"0"}, s \in {"Z"}}

InboundMessages ==
    {[header |-> h, body |-> b] : h \in InboundHeaders, b \in InboundBodies}

\* on_execution_report: what one invocation does with its message.  The PossDupFlag
\* test reads the body (message.isSetField), not message.getHeader().
on_execution_report(a, message) ==
    IF /\ isSetField(message, "PossDupFlag")
       /\ message.body["PossDupFlag"] = "Y"
    THEN [message |-> message, outcome |-> "ignored"]
    ELSE [message |-> message,
          outcome |-> "logged",
          ClientID |-> app[a].clientId,
          OrderID |-> getIfSet(message, "ClOrdID"),
          ExecType |-> ExecTypeStr(message.body["ExecType"]),
          OrderStatus |-> OrderStatusStr(message.body["OrdStatus"])]

\* a dispatch that hands every application message on
IsExecutionReportAny(message) == TRUE

\* `if msg_type.getValue() == fix.MsgType_ExecutionReport` of fromApp
IsExecutionReport(message) == message.header["MsgType"] = MsgType_ExecutionReport

\* the codes with which a counterparty reports an order as finished: Canceled, Fill,
\* Rejected, Expired (the same code stands for it in ExecType and in OrdStatus)
TerminalCodes == {"4", "2", "8", "C"}

\* the execution report that tells that order cl_ord_id is finished
TerminalReport(cl_ord_id, code) ==
    [header |-> [MsgType |-> MsgType_ExecutionReport],
     body |-> [ExecType |-> code, OrdStatus |-> code, ClOrdID |-> cl_ord_id]]

\* a fromApp that forgets the tracked order when a report says it is finished
fromAppUntracks(a, message) ==
    /\ initiator[a] = "running"
    /\ session[a] = "LoggedOn"
    /\ Len(received[a]) < MaxInbound
    /\ received' = [received EXCEPT ![a] = Append(@, message)]
    /\ reports' = [reports EXCEPT ![a] =
           IF IsExecutionReport(message)
           THEN Append(@, on_execution_report(a, message))
           ELSE @]
    /\ app' = [app EXCEPT ![a].lastClOrdId =
           IF /\ IsExecutionReport(message)
              /\ message.body["OrdStatus"] \in TerminalCodes
              /\ getIfSet(message, "ClOrdID") = @
           THEN None ELSE @]
    /\ UNCHANGED <<session, orderVars, lastCall, callbackVars, adminIn, mainVars>>

fromApp(a, message) ==
    /\ initiator[a] = "running"
    /\ session[a] = "LoggedOn"
    /\ Len(received[a]) < MaxInbound
    /\ received' = [received EXCEPT ![a] = Append(@, message)]
    /\ reports' = [reports EXCEPT ![a] =
           IF IsExecutionReport(message)
           THEN Append(@, on_execution_report(a, message))
           ELSE @]
    /\ UNCHANGED <<app, session, orderVars, lastCall, callbackVars, adminIn, mainVars>>

---------------------------------------------------------------------------
(* Inbound admin messages *)

\* the admin messages the counterparty sends on a connected session: heartbeats, and
\* Rejects with or without RefSeqNum (45) and Text (58)
InboundAdminMessages ==
    {[header |-> [MsgType |-> MsgType_Heartbeat], body |-> [TestReqID |-> "TEST"]]}
    \cup {[header |-> [MsgType |-> MsgType_Reject], body |-> b] :
            b \in {[SessionRejectReason |-> "5"],
                   [SessionRejectReason |-> "5", RefSeqNum |-> "2"],
                   [SessionRejectReason |-> "5", Text |-> "Value is incorrect"],
                   [SessionRejectReason |-> "5", RefSeqNum |-> "2",
                    Text |-> "Value is incorrect"]}}

\* what fromAdmin does with a message: every message is logged; for a Reject the two
\* fields are read when set and then logged (an unset field is logged empty)
from_admin(message) ==
    IF message.header.MsgType = MsgType_Reject
    THEN [event |-> "Received Reject",
          RefSeqNum |-> IF isSetField(message, "RefSeqNum")
                        THEN Some(message.body["RefSeqNum"]) ELSE None,
          Text |-> IF isSetField(message, "Text") THEN Some(message.body["Text"]) ELSE None]
    ELSE [event |-> "Admin message received"]

\* a fromAdmin that gives the session up when a Reject arrives
fromAdminRejectEnds(a, message) ==
    /\ initiator[a] = "running"
    /\ session[a] \in {"LogonSent", "LoggedOn"}
    /\ adminIn[a].count < MaxInbound
    /\ adminIn' = [adminIn EXCEPT ![a] = [count |-> @.count + 1, last |-> from_admin(message)]]
    /\ session' = [session EXCEPT ![a] =
           IF message.header.MsgType = MsgType_Reject THEN "Disconnected" ELSE @]
    /\ UNCHANGED <<app, orderVars, lastCall, callbackVars, received, reports, mainVars>>

\* fromAdmin: logs only
fromAdmin(a, message) ==
    /\ initiator[a] = "running"
    /\ session[a] \in {"LogonSent", "LoggedOn"}
    /\ adminIn[a].count < MaxInbound
    /\ adminIn' = [adminIn EXCEPT ![a] = [count |-> @.count + 1, last |-> from_admin(message)]]
    /\ UNCHANGED <<app, session, orderVars, lastCall, callbackVars, received, reports, mainVars>>

---------------------------------------------------------------------------
(* main(): waiting for the stop event, then shutting the clients down in order *)

\* handle_shutdown: SIGINT / SIGTERM sets the event
handle_shutdown ==
    /\ mainPc = "wait"
    /\ ~stop_event
    /\ stop_event' = TRUE
    /\ UNCHANGED <<app, session, orderVars, lastCall, callbackVars, inboundVars, mainPc, mainIdx, initiator>>

\* `while not stop_event.is_set()` ends; the finally block starts with the first client
main_leave_wait ==
    /\ mainPc = "wait"
    /\ stop_event
    /\ mainPc' = "send_logout"
    /\ UNCHANGED <<app, session, orderVars, lastCall, callbackVars, inboundVars, stop_event, mainIdx, initiator>>

\* app.send_logout() for the current client
main_send_logout ==
    /\ mainPc = "send_logout"
    /\ send_logout(running_clients[mainIdx])
    /\ mainPc' = "stop"
    /\ UNCHANGED <<session, callbackVars, inboundVars, stop_event, mainIdx, initiator>>

\* initiator.stop(True) for the current client, then the next client
main_initiator_stop ==
    /\ mainPc = "stop"
    /\ initiator' = [initiator EXCEPT ![running_clients[mainIdx]] = "stopped"]
    /\ session' = [session EXCEPT ![running_clients[mainIdx]] = "Disconnected"]
    /\ IF mainIdx < Len(running_clients)
       THEN mainIdx' = mainIdx + 1 /\ mainPc' = "send_logout"
       ELSE mainIdx' = mainIdx /\ mainPc' = "done"
    /\ UNCHANGED <<app, orderVars, lastCall, callbackVars, inboundVars, stop_event>>

---------------------------------------------------------------------------
(* Specifications *)

\* the engine's callbacks that open and close one session, with one Logon message
Lifecycle(a) ==
    \/ toAdmin(a, AdminMessage(a, MsgType_Logon, "1"), "20240611-09:30:00.417")
    \/ \E found \in ClientIdLookups : onLogon(a, found)
    \/ onLogout(a)

\* the commands a caller can issue on one Application
Commands(a) ==
    \/ \E sid \in SessionIdArgs(a), side \in {Side_BUY, Side_SELL},
          order_type \in {OrdType_LIMIT, OrdType_MARKET},
          ts \in Now(generatedIds[a]), u \in UuidFragments :
            send_order(a, sid, side, INSTRUMENT.reference_price, 2500, order_type, ts, u)
    \/ \E sid \in SessionIdArgs(a), new_price \in Optional(Prices),
          new_quantity \in Optional(Quantities), new_order_type \in Optional({OrdType_LIMIT}),
          ts \in Now(generatedIds[a]), u \in UuidFragments :
            modify_order(a, sid, new_price, new_quantity, new_order_type, ts, u)
    \/ \E sid \in SessionIdArgs(a), ts \in Now(generatedIds[a]), u \in UuidFragments :
            cancel_order(a, sid, ts, u)
    \/ /\ send_logout(a)
       /\ UNCHANGED <<session, callbackVars, inboundVars, mainVars>>

\* one Application: its session's life and the order commands
Next ==
    \E a \in {running_clients[1]} : Lifecycle(a) \/ Commands(a)

Spec == Init /\ [][Next]_vars

\* one Application: its session's life and the inbound application messages
NextReports ==
    \E a \in {running_clients[1]} :
        \/ Lifecycle(a)
        \/ \E message \in InboundMessages : fromApp(a, message)

SpecReports == Init /\ [][NextReports]_vars

\* the inbound application messages sent in answer to an order
OrderAnswers ==
    {message \in InboundMessages :
        "ClOrdID" \in DOMAIN message.body /\ DOMAIN message.header = {"MsgType"}}

\* the orders and the inbound messages of one session together
SessionLoad(a) == Len(generatedIds[a]) + Len(received[a]) + adminIn[a].count

\* one Application: every callback of the engine, with the admin messages in both
\* directions, and the order commands on the session's own id.  The orders and the
\* inbound messages share one budget.
NextSession ==
    \E a \in {running_clients[1]} :
        \/ onCreate(a)
        \/ \E msg_type \in {MsgType_Logon, MsgType_Heartbeat}, msg_seq_num \in MsgSeqNums,
               now \in UtcNow :
                 toAdmin(a, AdminMessage(a, msg_type, msg_seq_num), now)
        \/ \E found \in ClientIdLookups : onLogon(a, found)
        \/ onLogout(a)
        \/ \E message \in InboundAdminMessages :
              SessionLoad(a) < MaxOrders /\ fromAdmin(a, message)
        \/ \E message \in OrderAnswers :
              SessionLoad(a) < MaxOrders /\ fromApp(a, message)
        \/ \E ts \in Now(generatedIds[a]), u \in UuidFragments :
              /\ SessionLoad(a) < MaxOrders
              /\ send_order(a, SessionID(a), Side_BUY, INSTRUMENT.reference_price, 2500,
                            OrdType_LIMIT, ts, u)
        \/ \E ts \in Now(generatedIds[a]), u \in UuidFragments :
              /\ SessionLoad(a) < MaxOrders
              /\ modify_order(a, SessionID(a), Some(10050), None, None, ts, u)
        \/ \E ts \in Now(generatedIds[a]), u \in UuidFragments :
              /\ SessionLoad(a) < MaxOrders
              /\ cancel_order(a, SessionID(a), ts, u)
        \/ /\ send_logout(a)
           /\ UNCHANGED <<session, callbackVars, inboundVars, mainVars>>

SpecSession == Init /\ [][NextSession]_vars

\* one Application: its session's life, the order commands on the session's own id,
\* and the reports that the tracked order is finished
NextTracking ==
    \E a \in {running_clients[1]} :
        \/ Lifecycle(a)
        \/ \E code \in TerminalCodes :
              /\ SessionLoad(a) < MaxOrders
              /\ ~NoActiveOrder(a)
              /\ fromApp(a, TerminalReport(app[a].lastClOrdId, code))
        \/ \E ts \in Now(generatedIds[a]), u \in UuidFragments :
              /\ SessionLoad(a) < MaxOrders
              /\ send_order(a, SessionID(a), Side_BUY, INSTRUMENT.reference_price, 2500,
                            OrdType_LIMIT, ts, u)
        \/ \E ts \in Now(generatedIds[a]), u \in UuidFragments :
              /\ SessionLoad(a) < MaxOrders
              /\ modify_order(a, SessionID(a), Some(10050), None, None, ts, u)
        \/ \E ts \in Now(generatedIds[a]), u \in UuidFragments :
              /\ SessionLoad(a) < MaxOrders
              /\ cancel_order(a, SessionID(a), ts, u)

SpecTracking == Init /\ [][NextTracking]_vars

\* the orders and inbound application messages of all Applications together
SharedLoad ==
    LET m1 == running_clients[1]
        m2 == running_clients[2]
    IN Len(generatedIds[m1]) + Len(generatedIds[m2]) + Len(received[m1]) + Len(received[m2])

\* all Applications of main() side by side, in any interleaving: each session's life,
\* the order commands on the session's own id, and the answers to the orders
NextParallel ==
    \E a \in Mnemonics :
        \/ Lifecycle(a)
        \/ \E message \in OrderAnswers :
              SharedLoad < MaxShared /\ fromApp(a, message)
        \/ \E ts \in Now(generatedIds[a]), u \in UuidFragments :
              /\ SharedLoad < MaxShared
              /\ send_order(a, SessionID(a), Side_BUY, INSTRUMENT.reference_price, 2500,
                            OrdType_LIMIT, ts, u)
        \/ \E ts \in Now(generatedIds[a]), u \in UuidFragments :
              /\ SharedLoad < MaxShared
              /\ modify_order(a, SessionID(a), Some(10050), None, None, ts, u)
        \/ \E ts \in Now(generatedIds[a]), u \in UuidFragments :
              /\ SharedLoad < MaxShared
              /\ cancel_order(a, SessionID(a), ts, u)

SpecParallel == Init /\ [][NextParallel]_vars

\* all clients of main(): their sessions' lives and the shutdown
NextShutdown ==
    \/ \E a \in Mnemonics : Lifecycle(a)
    \/ handle_shutdown
    \/ main_leave_wait
    \/ main_send_logout
    \/ main_initiator_stop

SpecShutdown == Init /\ [][NextShutdown]_vars

\* one SimulatedTradingApplication: its session's life, and the simulation threads
\* its logons start, each taking its steps in any interleaving with the others
NextSimulation ==
    \E a \in {running_clients[1]} :
        \/ toAdmin(a, AdminMessage(a, MsgType_Logon, "1"), "20240611-09:30:00.417")
        \/ \E found \in ClientIdLookups : SimulatedTradingApplication_onLogon(a, found)
        \/ onLogout(a)
        \/ \E t \in 1..MaxLogons, action \in {"place", "modify", "cancel"},
               ts \in Timestamps :
                 simulation_loop(a, t, action, ts)
        \/ \E t \in 1..MaxLogons : generate_order_id_store(a, t)
        \/ \E t \in 1..MaxLogons, u \in UuidFragments : generate_order_id_return(a, t, u)
        \/ \E t \in 1..MaxLogons : command_send(a, t)

SpecSimulation == Init /\ [][NextSimulation]_vars

---------------------------------------------------------------------------
(* Properties *)

\* the message of the last Session.sendToTarget call on a
LastMessage(a) == lastSent[a][1]

\* a step in which a handed a message to Session.sendToTarget
Sends(a) == Len(sentTypes'[a]) = Len(sentTypes[a]) + 1

\* the message such a step sent
SentMessage(a) == lastSent'[a][1]

CancelOrReplace == {MsgType_OrderCancelRequest, MsgType_OrderCancelReplaceRequest}

\* C1: a cancel_order or modify_order call on an Application whose lastClOrdId is
\* unset leaves through the no-order return, hands nothing to Session.sendToTarget
\* and leaves lastClOrdId and orderIdCounter as they were.
C1_NoActiveOrderSendsNothing ==
    [][\A a \in Mnemonics :
          (/\ app[a].lastClOrdId = None
           /\ lastCall'[a].op \in {"cancel_order", "modify_order"})
          => /\ lastCall'[a].exit = "no_order"
             /\ lastSent'[a] = lastSent[a]
             /\ sentTypes'[a] = sentTypes[a]
             /\ app'[a].lastClOrdId = None
             /\ app'[a].orderIdCounter = app[a].orderIdCounter]_vars

\* C1 witness: modify_order has returned through the no-order return on a logged-on
\* session that never sent a message
C1_Witness ==
    \E a \in Mnemonics :
        /\ lastCall[a].op = "modify_order"
        /\ lastCall[a].exit = "no_order"
        /\ app[a].lastClOrdId = None
        /\ session[a] = "LoggedOn"
        /\ sentTypes[a] = <<>>

\* the header of a message carries PossDupFlag = Y
IsPossDup(message) ==
    /\ "PossDupFlag" \in DOMAIN message.header
    /\ message.header["PossDupFlag"] = "Y"

\* C2: an inbound Execution Report whose PossDupFlag is Y is never logged as an
\* Execution Report: on_execution_report leaves it before reading ExecType/OrdStatus.
C2_ReplaySuppressed ==
    \A a \in Mnemonics : \A i \in DOMAIN reports[a] :
        IsPossDup(reports[a][i].message) => reports[a][i].outcome = "ignored"

\* C3: while a session is logged on and the client id lookup found nothing
\* (clientId is None), no command hands a message to Session.sendToTarget.
C3_MissingClientIdSendsNothing ==
    [][\A a \in Mnemonics :
          (session[a] = "LoggedOn" /\ app[a].clientId = None)
          => sentTypes'[a] = sentTypes[a]]_vars

\* C4: when main() calls send_logout for a client whose session is logged on, a
\* Logout goes to Session.sendToTarget for that session while its initiator still runs.
C4_LogoutSentBeforeStop ==
    [][\A a \in Mnemonics :
          (/\ mainPc = "send_logout"
           /\ mainPc' = "stop"
           /\ a = running_clients[mainIdx]
           /\ session[a] = "LoggedOn")
          => /\ sentTypes'[a] = Append(sentTypes[a], MsgType_Logout)
             /\ lastSent'[a] = <<[MsgType |-> MsgType_Logout], SessionID(a)>>
             /\ initiator'[a] = "running"]_vars

\* C5: every cancel or cancel/replace that is sent carries as OrigClOrdID the
\* lastClOrdId of the moment the call began and a ClOrdID that differs from it and from
\* every id generated before; after every sent order message lastClOrdId is its ClOrdID.
C5_OrigIsTrackedIdAndNewIdTracked ==
    [][\A a \in Mnemonics :
          (Sends(a) /\ "ClOrdID" \in DOMAIN SentMessage(a))
          => /\ app'[a].lastClOrdId = SentMessage(a).ClOrdID
             /\ \A k \in DOMAIN generatedIds[a] : generatedIds[a][k] # SentMessage(a).ClOrdID
             /\ SentMessage(a).MsgType \in CancelOrReplace
                => /\ app[a].lastClOrdId # None
                   /\ SentMessage(a).OrigClOrdID = app[a].lastClOrdId
                   /\ SentMessage(a).ClOrdID # app[a].lastClOrdId]_vars

\* C5 witness: a cancel request has been sent whose own id has the timestamp and
\* the random fragment of the id it cancels
C5_Witness ==
    \E a \in Mnemonics :
        /\ lastCall[a].op = "cancel_order"
        /\ lastCall[a].exit = "sent"
        /\ lastSent[a] # None
        /\ LastMessage(a).MsgType = MsgType_OrderCancelRequest
        /\ LastMessage(a).OrigClOrdID[1] = LastMessage(a).ClOrdID[1]
        /\ LastMessage(a).OrigClOrdID[2] = LastMessage(a).ClOrdID[2]
        /\ app[a].lastClOrdId = LastMessage(a).ClOrdID

\* C6: every cancel or cancel/replace that is sent names as OrigClOrdID the id of the
\* order submitted last (by a New Order Single or a Cancel/Replace) on that session.
C6_TargetsLastSubmittedOrder ==
    [][\A a \in Mnemonics :
          (Sends(a) /\ SentMessage(a).MsgType \in CancelOrReplace)
          => SentMessage(a).OrigClOrdID = lastOrderId[a]]_vars

\* C7: the k-th id generated on an Application has counter component k, the counter
\* has moved exactly once per generated id, and every id sent is one of them.
C7_CounterOfKthIdIsK ==
    \A a \in Mnemonics :
        /\ app[a].orderIdCounter = Len(generatedIds[a])
        /\ \A k \in DOMAIN generatedIds[a] : CounterOf(generatedIds[a][k]) = k
        /\ (lastSent[a] # None /\ "ClOrdID" \in DOMAIN LastMessage(a))
           => \E k \in DOMAIN generatedIds[a] : generatedIds[a][k] = LastMessage(a).ClOrdID

\* C7 witness: two ids with the same timestamp and fragment were generated after a
\* cancel_order / modify_order had returned for lack of an order, and the last call
\* again is such a return
C7_Witness ==
    \E a \in Mnemonics :
        /\ Len(generatedIds[a]) >= 2
        /\ generatedIds[a][1][1] = generatedIds[a][2][1]
        /\ generatedIds[a][1][2] = generatedIds[a][2][2]
        /\ generatedIds[a][1] # generatedIds[a][2]
        /\ app[a].lastClOrdId = None
        /\ lastCall[a].exit = "no_order"

\* C8: a modify_order call with an active order and a usable session id is not
\* turned away, whatever the combination of given and absent new_price, new_quantity
\* and new_order_type (all absent too), and the Cancel/Replace it sends holds Price,
\* OrderQty and OrdType exactly when the matching argument was given.
C8_OnlyProvidedFieldsSent ==
    [][\A a \in Mnemonics :
          (/\ lastCall'[a].op = "modify_order"
           /\ lastCall'[a] # lastCall[a]
           /\ app[a].lastClOrdId # None
           /\ lastCall'[a].args[1] # None)
          => LET new_price == lastCall'[a].args[2]
                 new_quantity == lastCall'[a].args[3]
                 new_order_type == lastCall'[a].args[4]
             IN  /\ lastCall'[a].exit = "sent"
                 /\ Sends(a)
                 /\ SentMessage(a).MsgType = MsgType_OrderCancelReplaceRequest
                 /\ ("Price" \in DOMAIN SentMessage(a)) <=> (new_price # None)
                 /\ ("OrderQty" \in DOMAIN SentMessage(a)) <=> (new_quantity # None)
                 /\ ("OrdType" \in DOMAIN SentMessage(a)) <=> (new_order_type # None)
                 /\ new_price # None => SentMessage(a).Price = new_price[1]
                 /\ new_quantity # None => SentMessage(a).OrderQty = new_quantity[1]
                 /\ new_order_type # None => SentMessage(a).OrdType = new_order_type[1]]_vars

\* C8 witness: a Cancel/Replace was sent with none of the three fields
C8_Witness ==
    \E a \in Mnemonics :
        /\ lastCall[a].op = "modify_order"
        /\ lastCall[a].exit = "sent"
        /\ lastCall[a].args[2] = None
        /\ lastSent[a] # None
        /\ LastMessage(a).MsgType = MsgType_OrderCancelReplaceRequest
        /\ DOMAIN LastMessage(a) \cap {"Price", "OrderQty", "OrdType"} = {}

\* an inbound message that is an Execution Report without PossDupFlag = Y
IsFreshReport(message) ==
    message.header["MsgType"] = "8" /\ ~IsPossDup(message)

\* the messages on_execution_report was invoked with, in order
Invocations(a) == [i \in DOMAIN reports[a] |-> reports[a][i].message]

\* C9: the Execution Reports without PossDupFlag = Y that on_execution_report was
\* invoked with are exactly those that arrived, once each and in arrival order, and
\* it was invoked with no message of another type.
C9_EachReportHandledOnceInOrder ==
    \A a \in Mnemonics :
        /\ SelectSeq(Invocations(a), IsFreshReport) = SelectSeq(received[a], IsFreshReport)
        /\ \A i \in DOMAIN reports[a] : reports[a][i].message.header["MsgType"] = "8"

\* C9 witness: a message of another type arrived, then an Execution Report, and the
\* report alone was handled
C9_Witness ==
    \E a \in Mnemonics :
        /\ Len(received[a]) = 2
        /\ received[a][1].header["MsgType"] = "9"
        /\ IsFreshReport(received[a][2])
        /\ Len(reports[a]) = 1
        /\ reports[a][1].message = received[a][2]

\* C10: a handled report's ExecType and OrdStatus are logged as the table's name when
\* the raw code is in the table and as "Unknown (<raw code>)" when it is not, and a
\* report with an unknown code is still logged.
C10_CodesNamedOrUnknown ==
    \A a \in Mnemonics : \A i \in DOMAIN reports[a] :
        LET r == reports[a][i]
            e == r.message.body["ExecType"]
            s == r.message.body["OrdStatus"]
        IN  /\ ~IsPossDup(r.message) => r.outcome = "logged"
            /\ r.outcome = "logged" =>
              /\ e \in DOMAIN EXEC_TYPE_MAP => r.ExecType = EXEC_TYPE_MAP[e]
              /\ e \notin DOMAIN EXEC_TYPE_MAP => r.ExecType = "Unknown (" \o e \o ")"
              /\ s \in DOMAIN ORDER_STATUS_MAP => r.OrderStatus = ORDER_STATUS_MAP[s]
              /\ s \notin DOMAIN ORDER_STATUS_MAP => r.OrderStatus = "Unknown (" \o s \o ")"
              /\ e = "7" => r.ExecType = "Unknown (7)"
              /\ s = "7" => r.OrderStatus = "Stopped"

\* C10 witness: a report with ExecType 7 (no ExecType code) and OrdStatus Z was logged
C10_Witness ==
    \E a \in Mnemonics : \E i \in DOMAIN reports[a] :
        /\ reports[a][i].outcome = "logged"
        /\ reports[a][i].message.body["ExecType"] = "7"
        /\ reports[a][i].message.body["OrdStatus"] = "Z"
        /\ reports[a][i].ExecType = "Unknown (7)"
        /\ reports[a][i].OrderStatus = "Unknown (Z)"

\* a step in which send_order was called on a (every call generates one id)
SendOrderCalled(a) ==
    /\ lastCall'[a].op = "send_order"
    /\ Len(generatedIds'[a]) = Len(generatedIds[a]) + 1

\* C11: a send_order call made while the session is not logged on (before the first
\* onLogon, or after onLogout) ends as a failure: no message is handed to
\* Session.sendToTarget and lastClOrdId keeps its value
C11_NotLoggedOnSendOrderFails ==
    [][\A a \in Mnemonics :
         (session[a] # "LoggedOn" /\ SendOrderCalled(a)) =>
             /\ lastCall'[a].exit # "sent"
             /\ ~Sends(a)
             /\ app'[a].lastClOrdId = app[a].lastClOrdId]_vars

\* a step in which the engine called onLogon on a
LogsOn(a) == session[a] # "LoggedOn" /\ session'[a] = "LoggedOn"

\* C12: get_client_id is called exactly once per logon: an onLogon step makes one
\* call and leaves its result in clientId; no other step (onCreate, onLogout, toAdmin,
\* fromAdmin, fromApp, an order command) makes a call
C12_OneLookupPerLogon ==
    [][\A a \in Mnemonics :
         IF LogsOn(a)
         THEN /\ lookup'[a].calls = lookup[a].calls + 1
              /\ app'[a].clientId = lookup'[a].result
         ELSE lookup'[a] = lookup[a]]_vars

\* a second logon has looked the client id up again, after orders and inbound messages
C12_Witness ==
    \E a \in Mnemonics :
        /\ session[a] = "LoggedOn"
        /\ lookup[a].calls = 2
        /\ app[a].clientId = lookup[a].result
        /\ app[a].clientId # None
        /\ generatedIds[a] # <<>>
        /\ adminIn[a].count > 0
        /\ received[a] # <<>>

\* a step in which fromAdmin got a Reject on a
RejectReceived(a) ==
    /\ adminIn'[a].count = adminIn[a].count + 1
    /\ adminIn'[a].last.event = "Received Reject"

\* C14: a Reject received in fromAdmin is only logged: the session stays as it is,
\* nothing is sent, and sessionID, clientId, lastClOrdId and orderIdCounter keep their
\* values, whether or not RefSeqNum and Text are present in the message
C14_RejectOnlyLogged ==
    [][\A a \in Mnemonics :
         RejectReceived(a) =>
             /\ session'[a] = session[a]
             /\ app'[a] = app[a]
             /\ sentTypes'[a] = sentTypes[a]
             /\ initiator'[a] = initiator[a]]_vars

\* a Reject without RefSeqNum and Text was the last admin message of a session that
\* is in its first logon and has an active order
C14_Witness ==
    \E a \in Mnemonics :
        /\ adminIn[a].count > 0
        /\ adminIn[a].last.event = "Received Reject"
        /\ adminIn[a].last.RefSeqNum = None
        /\ adminIn[a].last.Text = None
        /\ session[a] = "LoggedOn"
        /\ lookup[a].calls = 1
        /\ app[a].lastClOrdId # None
        /\ app[a].orderIdCounter > 0

\* what an operation on a can change: a's Application, session, orders and inbound
\* messages
StateOf(a) ==
    <<app[a], session[a], generatedIds[a], lastSent[a], sentTypes[a], lastCall[a],
      lookup[a], received[a], reports[a]>>

\* C15: sessions are independent: a step that is an operation on one Application
\* (send_order, modify_order, cancel_order, onLogon, handling of an execution report,
\* ...) leaves lastClOrdId, orderIdCounter, clientId and the session id of every other
\* Application unchanged, in every interleaving
C15_OtherApplicationsUntouched ==
    [][\A a \in Mnemonics, b \in Mnemonics :
         (a # b /\ StateOf(a)' # StateOf(a)) =>
             /\ app'[b] = app[b]
             /\ session'[b] = session[b]
             /\ generatedIds'[b] = generatedIds[b]]_vars

\* both Applications are logged on with their own session id and each has sent an order
C15_Witness ==
    /\ \A a \in Mnemonics :
          /\ session[a] = "LoggedOn"
          /\ app[a].sessionID = SessionID(a)
          /\ app[a].orderIdCounter = 1
          /\ app[a].lastClOrdId # None
    /\ app[running_clients[1]].clientId # app[running_clients[2]].clientId

\* the simulation threads of a that have not ended
LiveThreads(a) == {t \in 1..Len(threads[a]) : threads[a][t].pc # "dead"}

\* C16: with order commands issued on one Application from more than one thread, in
\* every interleaving the generated client order ids have pairwise distinct counter
\* components, and every cancel or cancel/replace sent names as OrigClOrdID the
\* ClOrdID of the message sent on the session immediately before it
C16_CommandsAsIfSerialized ==
    [][\A a \in Mnemonics :
         /\ \A i, j \in 1..Len(generatedIds'[a]) :
               i # j => CounterOf(generatedIds'[a][i]) # CounterOf(generatedIds'[a][j])
         /\ (Sends(a) /\ SentMessage(a).MsgType \in CancelOrReplace) =>
               SentMessage(a).OrigClOrdID = LastMessage(a).ClOrdID]_vars

\* C19: every order command the simulation loop issues after a logon goes to the
\* session id onLogon recorded for that Application: the session id handed to
\* Session.sendToTarget is never None
C19_SimulationSendsToRecordedSession ==
    [][\A a \in Mnemonics : \A t \in 1..Len(threads[a]) :
         (threads[a][t].pc = "send" /\ threads'[a][t].pc # "send") =>
             /\ threads[a][t].sid # None
             /\ threads[a][t].sid = app[a].sessionID]_vars

\* C20: whatever logons and logouts an Application has seen, at most one of its
\* simulation loop threads is alive and issuing order commands
C20_AtMostOneSimulationThread ==
    \A a \in Mnemonics : Cardinality(LiveThreads(a)) <= 1

\* C17: credentials are renewed per logon: an outgoing Logon leaves toAdmin with
\* Username = the API key id and Password = generate_password over its own MsgType,
\* MsgSeqNum, SenderCompID, TargetCompID and the very sending time stamped into header
\* field 52; an outgoing admin message that is not a Logon leaves toAdmin as it came
C17_LogonCredentialsFromOwnHeader ==
    \A a \in Mnemonics :
        adminOut[a] # None =>
            LET before == adminOut[a][1]
                after == adminOut[a][2]
            IN IF before.header.MsgType = MsgType_Logon
               THEN /\ after.body["Username"] = app[a].apiKeyId
                    /\ after.body["Password"] =
                           generate_password(app[a].apiKeySecret, after.header.SendingTime,
                                             after.header.MsgType, after.header.MsgSeqNum,
                                             after.header.SenderCompID,
                                             after.header.TargetCompID, app[a].apiKeyId)
                    /\ after.header.SendingTime \in UtcNow
                    /\ [after.header EXCEPT !.SendingTime = before.header.SendingTime]
                           = before.header
                    /\ \A tag \in DOMAIN before.body : after.body[tag] = before.body[tag]
               ELSE after = before

\* the Logon of a second logon attempt has left toAdmin, with the next sequence number
\* and a sending time of its own
C17_Witness ==
    \E a \in Mnemonics :
        /\ session[a] = "LogonSent"
        /\ lookup[a].calls = 1
        /\ adminOut[a] # None
        /\ adminOut[a][1].header.MsgType = MsgType_Logon
        /\ adminOut[a][1].header.MsgSeqNum = "2"
        /\ adminOut[a][2].header.SendingTime # adminOut[a][1].header.SendingTime
        /\ "Password" \in DOMAIN adminOut[a][2].body

\* C18: every sent order is observable with its own identity: the "Order placed" event
\* logged by send_order carries the ClOrdID of the New Order Single just sent, for the
\* first order of a session too
C18_OrderPlacedLogsSentId ==
    [][\A a \in Mnemonics :
         (Sends(a) /\ SentMessage(a).MsgType = MsgType_NewOrderSingle) =>
             /\ orderLog'[a].event = "Order placed"
             /\ orderLog'[a].OrderID = SentMessage(a).ClOrdID]_vars

\* a step in which fromApp got a message on a
AppMessageReceived(a) == Len(received'[a]) = Len(received[a]) + 1

\* C21: handling an inbound application message never changes the order tracking:
\* fromApp / on_execution_report leave lastClOrdId, orderIdCounter and clientId as
\* they are for every execution report, also when it reports the tracked order as
\* Canceled, Fill, Rejected or Expired, and they send no message
C21_InboundLeavesTracking ==
    [][\A a \in Mnemonics :
         AppMessageReceived(a) =>
             /\ app'[a].lastClOrdId = app[a].lastClOrdId
             /\ app'[a].orderIdCounter = app[a].orderIdCounter
             /\ app'[a].clientId = app[a].clientId
             /\ sentTypes'[a] = sentTypes[a]
             /\ lastSent'[a] = lastSent[a]]_vars

\* a cancel request was the last message sent, the report that says Canceled for its
\* id was received and logged, and that id is still the tracked one
C21_Witness ==
    \E a \in Mnemonics :
        /\ received[a] # <<>>
        /\ reports[a] # <<>>
        /\ sentTypes[a] # <<>>
        /\ LastMessage(a).MsgType = MsgType_OrderCancelRequest
        /\ received[a][Len(received[a])].body["OrdStatus"] = "4"
        /\ received[a][Len(received[a])].body["ClOrdID"] = LastMessage(a).ClOrdID
        /\ reports[a][Len(reports[a])].outcome = "logged"
        /\ reports[a][Len(reports[a])].OrderStatus = "Canceled"
        /\ app[a].lastClOrdId = LastMessage(a).ClOrdID
        /\ app[a].orderIdCounter = 2

\* a step in which cancel_order or modify_order was called on a
CancelOrModifyCalled(a) ==
    /\ lastCall'[a] # lastCall[a]
    /\ lastCall'[a].op \in {"cancel_order", "modify_order"}

\* C22: once send_order has been called on an Application (its first id is generated),
\* lastClOrdId is never unset again, whatever happens later, and every cancel_order
\* and modify_order call from then on sends a message instead of returning with
\* no active order
C22_TrackedOnceSendOrderCalled ==
    [][\A a \in Mnemonics :
         generatedIds'[a] # <<>> =>
             /\ app'[a].lastClOrdId # None
             /\ (generatedIds[a] # <<>> /\ CancelOrModifyCalled(a)) =>
                    /\ lastCall'[a].exit = "sent"
                    /\ Sends(a)]_vars

====
